---------------------------- MODULE Spec2Model ----------------------------
(***************************************************************************)
(* Model of src/app.py (ApiTesterApp): the request dispatch pipeline.      *)
(*                                                                         *)
(* The main (Tk) context runs the handlers _queue_request,                 *)
(* _delete_selected_history, _clear_history and the periodic poll_queue;   *)
(* each _worker_loop thread runs in parallel with it.  Records are heap    *)
(* objects: a record is named by its allocation number (its reference) and *)
(* its fields live in recs.  Text is a sequence of one-character strings.  *)
(***************************************************************************)
EXTENDS Naturals, Integers, Sequences, FiniteSets, TLC

VARIABLES
    recs,               \* heap: reference -> RequestHistoryItem fields
    history,            \* self.history: list of references, oldest first
    history_listbox,    \* self.history_listbox: the labels shown
    request_queue,      \* self.request_queue: references
    response_queue,     \* self.response_queue: (item, result) pairs
    status_var,         \* live panel: self.status_var
    elapsed_var,        \* live panel: self.elapsed_var
    response_headers_text, \* live panel: self.response_headers_text
    response_body_text, \* live panel: self.response_body_text
    mainpc,             \* position of the main context
    pollScheduled,      \* a root.after(150, poll_queue) callback is pending
    wpc,                \* position of each worker thread
    witem,              \* each worker thread's local `item`
    wresult,            \* each worker thread's local `result`
    sent,               \* history variable: transport calls begun per record
    written,            \* history variable: outcome writes per record
    published,          \* history variable: pairs put per record
    tickLeft,           \* history variable: pairs present at tick start, not yet taken
    headers_raw,               \* history variable: the headers text of the last _parse_headers call
    dialogs,            \* history variable: error and warning boxes of the last main handler
    wasEmpty            \* history variable: the request queue was empty before the put

vars == << recs, history, history_listbox, request_queue, response_queue,
           status_var, elapsed_var, response_headers_text, response_body_text,
           mainpc, pollScheduled, wpc, witem, wresult,
           sent, written, published, tickLeft, headers_raw, dialogs, wasEmpty >>

-----------------------------------------------------------------------------
(* Bounds of the model *)

MaxSubmits == 2

(* One thread slot per possible threading.Thread(...).start() *)
Workers == 1 .. MaxSubmits

Refs == 1 .. MaxSubmits

-----------------------------------------------------------------------------
(* Values *)

(* Optional[...] values: None, or the value boxed *)
None == << >>

Some(x) == << x >>

(* response.text[:200] *)
PreviewLen == 200

WhiteSpace == {" ", "\n"}

RECURSIVE LStrip(_)
LStrip(s) ==
    IF s # << >> /\ Head(s) \in WhiteSpace THEN LStrip(Tail(s)) ELSE s

RECURSIVE RStrip(_)
RStrip(s) ==
    IF s # << >> /\ s[Len(s)] \in WhiteSpace
    THEN RStrip(SubSeq(s, 1, Len(s) - 1))
    ELSE s

(* str.strip() *)
Strip(s) == RStrip(LStrip(s))

(* What the user may have typed in the URL entry *)
UrlEntries == { << >>, << " " >>, << "u" >>, << " ", "u" >> }

(* The method menu's choices offered in the model *)
MethodChoices == { "get" }

(* str.upper() on the method menu's value *)
Upper(m) == IF m = "get" THEN "GET" ELSE m

(* Milliseconds a transport call may take, as measured by perf_counter *)
ElapsedChoices == { 4, 1004 }

(* Responses the transport may return *)
Responses ==
    { [ status_code |-> 200, reason |-> "OK", headers |-> << >>,
        text |-> << "[", "\n", "]" >> ] }

(* The same responses, and one more that differs from the first only in its *)
(* headers, given as a list of key and value                                *)
DatedResponses ==
    Responses \cup
        { [ status_code |-> 200, reason |-> "OK",
            headers |-> << << "Date", "later" >> >>,
            text |-> << "[", "\n", "]" >> ] }

(* requests.exceptions.RequestException instances the transport may raise *)
Exceptions == { << "t", "i", "m", "e", "o", "u", "t" >> }

(* What the user may have typed in the headers and body boxes *)
HeaderTexts == { << >> }

(* Longest headers text typed in the specification of the parser *)
MaxRawLen == 6

RawAlphabet == { "a", ":", " ", "\n" }

(* "X-Test: 1\nBad-Line\nY: 2" *)
ExampleText ==
    << "X", "-", "T", "e", "s", "t", ":", " ", "1", "\n",
       "B", "a", "d", "-", "L", "i", "n", "e", "\n",
       "Y", ":", " ", "2" >>

(* Headers texts typed in the specification of the parser *)
RawTexts ==
    UNION { [1 .. n -> RawAlphabet] : n \in 0 .. MaxRawLen } \cup { ExampleText }

BodyTexts == { << "\n" >> }

NoSelection == << >>

-----------------------------------------------------------------------------
(* Pure functions *)

RECURSIVE SplitLines(_)
(* str.splitlines(), for the line break "\n" *)
SplitLines(s) ==
    IF s = << >> THEN << >>
    ELSE IF \E i \in 1 .. Len(s) : s[i] = "\n"
         THEN LET i == CHOOSE j \in 1 .. Len(s) :
                         s[j] = "\n" /\ \A k \in 1 .. j - 1 : s[k] # "\n"
              IN  << SubSeq(s, 1, i - 1) >> \o SplitLines(SubSeq(s, i + 1, Len(s)))
         ELSE << s >>

HasColon(line) == \E i \in 1 .. Len(line) : line[i] = ":"

FirstColon(line) ==
    CHOOSE i \in 1 .. Len(line) :
        line[i] = ":" /\ \A k \in 1 .. i - 1 : line[k] # ":"

SetHeader_KeepsFirst(headers, line) ==
    LET c     == FirstColon(line)
        key   == Strip(SubSeq(line, 1, c - 1))
        value == Strip(SubSeq(line, c + 1, Len(line)))
    IN  [k \in DOMAIN headers \cup {key} |->
            IF k \in DOMAIN headers THEN headers[k] ELSE value]

(* headers[key.strip()] = value.strip() *)
SetHeader(headers, line) ==
    LET c     == FirstColon(line)
        key   == Strip(SubSeq(line, 1, c - 1))
        value == Strip(SubSeq(line, c + 1, Len(line)))
    IN  [k \in DOMAIN headers \cup {key} |->
            IF k = key THEN value ELSE headers[k]]

RECURSIVE ParseLines(_, _)
ParseLines(lines, headers) ==
    IF lines = << >> THEN headers
    ELSE LET line == Head(lines)
         IN  IF Strip(line) = << >> \/ ~HasColon(line)
             THEN ParseLines(Tail(lines), headers)
             ELSE ParseLines(Tail(lines), SetHeader(headers, line))

(* _parse_headers: the mapping returned *)
ParseHeaders(raw) == ParseLines(SplitLines(Strip(raw)), << >>)

(* _parse_headers: the lines reported by messagebox.showwarning, in order *)
HeaderWarnings(raw) ==
    SelectSeq(SplitLines(Strip(raw)),
              LAMBDA line : Strip(line) # << >> /\ ~HasColon(line))

(* RequestHistoryItem(method=, url=, headers=, body=) with the defaults *)
NewItem(method, url, headers, body) ==
    [ method            |-> method,
      url               |-> url,
      headers           |-> headers,
      body              |-> body,
      response_status   |-> None,
      response_time     |-> None,
      response_preview  |-> << >> ]

(* The dataclass-generated RequestHistoryItem.__eq__: field by field *)
ItemEq(a, b) ==
    /\ a.method = b.method
    /\ a.url = b.url
    /\ a.headers = b.headers
    /\ a.body = b.body
    /\ a.response_status = b.response_status
    /\ a.response_time = b.response_time
    /\ a.response_preview = b.response_preview

(* The decimal text of an integer, as an f-string renders it *)
Str(n) == << "decimal", n >>

(* RequestHistoryItem.display_label; response_time is held in milliseconds *)
DisplayLabel(r) ==
    [ method   |-> r.method,
      url      |-> r.url,
      status   |-> IF r.response_status # None
                   THEN Str(r.response_status[1])
                   ELSE << "..." >>,
      duration |-> IF r.response_time # None
                   THEN << r.response_time[1], "ms" >>
                   ELSE << "pending" >> ]

(* _refresh_history_listbox: the labels of reversed(self.history) *)
RefreshHistoryListbox(h, heap) ==
    [ i \in 1 .. Len(h) |-> DisplayLabel(heap[h[Len(h) + 1 - i]]) ]

(* f"{elapsed:.2f} s": hundredths of a second, from milliseconds *)
ElapsedText(ms) == << (ms + 5) \div 10, "hundredths s" >>

(* response.text[:200].replace("\n", " ") *)
Preview(text) ==
    LET cut == SubSeq(text, 1, IF Len(text) < PreviewLen THEN Len(text) ELSE PreviewLen)
    IN  [ i \in 1 .. Len(cut) |-> IF cut[i] = "\n" THEN " " ELSE cut[i] ]

(* _format_body on the texts of Responses: an empty JSON array, whatever its *)
(* white space, is re-serialised as "[]"; text that is not JSON is kept      *)
FormatBody(body) ==
    IF SelectSeq(body, LAMBDA c : c \notin WhiteSpace) = << "[", "]" >>
    THEN << "[", "]" >>
    ELSE body

(* The result dict of the success path *)
SuccessResult(response, elapsed) ==
    [ status  |-> << Str(response.status_code), response.reason >>,
      elapsed |-> ElapsedText(elapsed),
      headers |-> << "json", response.headers >>,
      body    |-> FormatBody(response.text) ]

FailureResult_SuccessShape(exc, elapsed) ==
    [ status  |-> << Str(0), exc >>,
      elapsed |-> ElapsedText(elapsed),
      headers |-> << "json", << >> >>,
      body    |-> exc ]

(* The result dict of the except path *)
FailureResult(exc, elapsed) ==
    [ status  |-> << "Request failed" >>,
      elapsed |-> ElapsedText(elapsed),
      headers |-> << >>,
      body    |-> exc ]

(* del self.history[index], index counted from 0; a negative index counts   *)
(* from the end.  InRange says whether the statement raises IndexError.      *)
NormIndex(h, index) == IF index < 0 THEN index + Len(h) ELSE index

InRange(h, index) == NormIndex(h, index) >= 0 /\ NormIndex(h, index) < Len(h)

DelIndex_OffByOne(h, index) ==
    LET i == NormIndex(h, index)
    IN  SubSeq(h, 1, i - 1) \o SubSeq(h, i + 1, Len(h))

DelIndex(h, index) ==
    LET i == NormIndex(h, index) + 1
    IN  SubSeq(h, 1, i - 1) \o SubSeq(h, i + 1, Len(h))

(* The statement as a whole: IndexError leaves the list as it was *)
DelHistory(h, index) == IF InRange(h, index) THEN DelIndex(h, index) ELSE h

-----------------------------------------------------------------------------
(* Initial state: after ApiTesterApp.__init__, whose first poll_queue() call *)
(* found the response queue empty and scheduled the next tick               *)

Init ==
    /\ recs = << >>
    /\ history = << >>
    /\ history_listbox = << >>
    /\ request_queue = << >>
    /\ response_queue = << >>
    /\ status_var = << "-" >>
    /\ elapsed_var = << "-" >>
    /\ response_headers_text = << >>
    /\ response_body_text = << >>
    /\ mainpc = "idle"
    /\ pollScheduled = TRUE
    /\ wpc = [w \in Workers |-> "none"]
    /\ witem = [w \in Workers |-> 0]
    /\ wresult = [w \in Workers |-> << >>]
    /\ sent = [r \in Refs |-> 0]
    /\ written = [r \in Refs |-> 0]
    /\ published = [r \in Refs |-> 0]
    /\ tickLeft = 0
    /\ headers_raw = << >>
    /\ dialogs = << >>
    /\ wasEmpty = FALSE

panel == << status_var, elapsed_var, response_headers_text, response_body_text >>

workerVars == << wpc, witem, wresult >>

ghostVars == << sent, written, published, tickLeft >>

submitVars == << headers_raw, dialogs, wasEmpty >>

(* messagebox.showerror("Missing URL", ...) *)
MissingUrlBox == [ title |-> "Missing URL", about |-> << >> ]

(* messagebox.showwarning("Invalid header", f"Header '{line}' ...") *)
InvalidHeaderBox(line) == [ title |-> "Invalid header", about |-> line ]

InvalidHeaderBoxes(headersText) ==
    LET lines == HeaderWarnings(headersText)
    IN  [ i \in 1 .. Len(lines) |-> InvalidHeaderBox(lines[i]) ]

Alive == { w \in Workers : wpc[w] # "none" }

-----------------------------------------------------------------------------
(* Main context: _queue_request *)

UrlOf_NoStrip(urlText) == urlText

(* Line 169: url = self.url_entry.get().strip() *)
UrlOf(urlText) == Strip(urlText)

HistoryAppend_AtFront(h, item) == << item >> \o h

HistoryAppend_Twice(h, item) == Append(Append(h, item), item)

(* Line 178: self.history.append(item) *)
HistoryAppend(h, item) == Append(h, item)

(* Lines 169-184: validate, build the record, append, refresh, enqueue,     *)
(* reset the live panel.  The size test of line 186 is a later step: worker *)
(* threads run between the put and the test.                                *)
QueueRequest(urlText, methodChoice, headersText, bodyText) ==
    /\ mainpc = "idle"
    /\ LET url == UrlOf(urlText)
       IN  IF url = << >>
           THEN /\ dialogs' = << MissingUrlBox >>
                /\ UNCHANGED << recs, history, history_listbox, request_queue,
                                response_queue, panel, mainpc, pollScheduled,
                                workerVars, ghostVars, headers_raw, wasEmpty >>
           ELSE /\ Len(recs) < MaxSubmits
                /\ headers_raw' = headersText
                /\ dialogs' = InvalidHeaderBoxes(headersText)
                /\ wasEmpty' = (request_queue = << >>)
                /\ LET item == Len(recs) + 1
                       new  == NewItem(Upper(methodChoice), url,
                                       ParseHeaders(headersText), Strip(bodyText))
                   IN  /\ recs' = Append(recs, new)
                       /\ history' = HistoryAppend(history, item)
                       /\ history_listbox' = RefreshHistoryListbox(history', recs')
                       /\ request_queue' = Append(request_queue, item)
                /\ status_var' = << "Pending..." >>
                /\ elapsed_var' = << "-" >>
                /\ response_headers_text' = << >>
                /\ response_body_text' = << >>
                /\ mainpc' = "queued"
                /\ UNCHANGED << response_queue, pollScheduled, workerVars, ghostVars >>

(* threading.Thread(target=self._worker_loop, daemon=True).start() *)
StartWorker ==
    LET w == CHOOSE x \in Workers \ Alive : \A y \in Workers \ Alive : x <= y
    IN  wpc' = [wpc EXCEPT ![w] = "while"]

QueueSizeIsOne_TestsEmpty == Len(request_queue) = 0

(* Line 186: self.request_queue.qsize() == 1 *)
QueueSizeIsOne == Len(request_queue) = 1

(* Lines 186-187 *)
QueueRequestStart ==
    /\ mainpc = "queued"
    /\ IF QueueSizeIsOne
       THEN StartWorker
       ELSE UNCHANGED wpc
    /\ mainpc' = "idle"
    /\ wasEmpty' = FALSE
    /\ UNCHANGED << recs, history, history_listbox, request_queue, response_queue,
                    panel, pollScheduled, witem, wresult, ghostVars, headers_raw, dialogs >>

-----------------------------------------------------------------------------
(* Worker threads: _worker_loop *)

(* Line 190: while not self.request_queue.empty() *)
WorkerTest(w) ==
    /\ wpc[w] = "while"
    /\ wpc' = [wpc EXCEPT ![w] = IF request_queue = << >> THEN "none" ELSE "get"]
    /\ UNCHANGED << recs, history, history_listbox, request_queue, response_queue,
                    panel, mainpc, pollScheduled, witem, wresult, ghostVars,
                    submitVars >>

QueueAfterGet_Peek(q) == q

(* Line 191: what get() leaves in the queue *)
QueueAfterGet(q) == Tail(q)

(* Lines 191-200: the blocking get(), then the transport call begins *)
WorkerGet(w) ==
    /\ wpc[w] = "get"
    /\ request_queue # << >>
    /\ witem' = [witem EXCEPT ![w] = Head(request_queue)]
    /\ request_queue' = QueueAfterGet(request_queue)
    /\ sent' = [sent EXCEPT ![Head(request_queue)] = @ + 1]
    /\ wpc' = [wpc EXCEPT ![w] = "request"]
    /\ UNCHANGED << recs, history, history_listbox, response_queue, panel, mainpc,
                    pollScheduled, wresult, written, published, tickLeft,
                    submitVars >>

AfterException_ThreadDies == "none"

(* Where the thread is after the except clause, lines 212-222 *)
AfterException == "put"

(* Lines 201-211: the call returned *)
WorkerResponse(w, response, elapsed) ==
    /\ wpc[w] = "request"
    /\ recs' = [recs EXCEPT ![witem[w]] =
                   [@ EXCEPT !.response_status = Some(response.status_code),
                             !.response_time = Some(elapsed),
                             !.response_preview = Preview(response.text)]]
    /\ wresult' = [wresult EXCEPT ![w] = SuccessResult(response, elapsed)]
    /\ written' = [written EXCEPT ![witem[w]] = @ + 1]
    /\ wpc' = [wpc EXCEPT ![w] = "put"]
    /\ UNCHANGED << history, history_listbox, request_queue, response_queue, panel,
                    mainpc, pollScheduled, witem, sent, published, tickLeft,
                    submitVars >>

(* Lines 212-222: the call raised a RequestException *)
WorkerException(w, exc, elapsed) ==
    /\ wpc[w] = "request"
    /\ recs' = [recs EXCEPT ![witem[w]] =
                   [@ EXCEPT !.response_status = None,
                             !.response_time = Some(elapsed),
                             !.response_preview = exc]]
    /\ wresult' = [wresult EXCEPT ![w] = FailureResult(exc, elapsed)]
    /\ written' = [written EXCEPT ![witem[w]] = @ + 1]
    /\ wpc' = [wpc EXCEPT ![w] = AfterException]
    /\ UNCHANGED << history, history_listbox, request_queue, response_queue, panel,
                    mainpc, pollScheduled, witem, sent, published, tickLeft,
                    submitVars >>

(* Line 223: self.response_queue.put((item, result)), then back to line 190 *)
WorkerPut(w) ==
    /\ wpc[w] = "put"
    /\ response_queue' = Append(response_queue,
                                [item |-> witem[w], result |-> wresult[w]])
    /\ published' = [published EXCEPT ![witem[w]] = @ + 1]
    /\ wpc' = [wpc EXCEPT ![w] = "while"]
    /\ witem' = [witem EXCEPT ![w] = 0]
    /\ wresult' = [wresult EXCEPT ![w] = << >>]
    /\ UNCHANGED << recs, history, history_listbox, request_queue, panel, mainpc,
                    pollScheduled, sent, written, tickLeft, submitVars >>

Worker(w) ==
    \/ WorkerTest(w)
    \/ WorkerGet(w)
    \/ \E response \in Responses, elapsed \in ElapsedChoices :
           WorkerResponse(w, response, elapsed)
    \/ \E exc \in Exceptions, elapsed \in ElapsedChoices :
           WorkerException(w, exc, elapsed)
    \/ WorkerPut(w)

-----------------------------------------------------------------------------
(* Main context: the poll loop of _start_response_loop *)

(* The Tk timer fires the callback scheduled by root.after(150, poll_queue) *)
PollBegin ==
    /\ mainpc = "idle"
    /\ pollScheduled
    /\ mainpc' = "poll"
    /\ pollScheduled' = FALSE
    /\ tickLeft' = Len(response_queue)
    /\ dialogs' = << >>
    /\ UNCHANGED << recs, history, history_listbox, request_queue, response_queue,
                    panel, workerVars, sent, written, published, headers_raw, wasEmpty >>

(* _display_response *)
DisplayResponse(result) ==
    /\ status_var' = result.status
    /\ elapsed_var' = result.elapsed
    /\ response_headers_text' = result.headers
    /\ response_body_text' = result.body

IsLatest_ComparesFirst(item) == ItemEq(recs[item], recs[history[1]])

(* Line 230: item == self.history[-1], for a non-empty history *)
IsLatest(item) == ItemEq(recs[item], recs[history[Len(history)]])

(* The finally clause, line 236: root.after(150, poll_queue) *)
PollFinally ==
    /\ pollScheduled' = TRUE
    /\ mainpc' = "idle"

PollRaise_NoFinally ==
    /\ pollScheduled' = FALSE
    /\ mainpc' = "idle"

(* An exception other than queue.Empty leaves poll_queue: no except clause  *)
(* takes it, the finally clause runs and Tk reports the exception           *)
PollRaise == PollFinally

(* Lines 229-232: one round of the while loop that gets a pair.  With an    *)
(* empty history, self.history[-1] raises IndexError: the pair is dropped,  *)
(* the loop is left through the finally clause and the exception goes to Tk *)
PollGet ==
    /\ mainpc = "poll"
    /\ response_queue # << >>
    /\ LET pair == Head(response_queue)
       IN  /\ response_queue' = Tail(response_queue)
           /\ tickLeft' = IF tickLeft > 0 THEN tickLeft - 1 ELSE 0
           /\ IF history = << >>
              THEN /\ PollRaise
                   /\ UNCHANGED << panel, history_listbox >>
              ELSE /\ IF IsLatest(pair.item)
                      THEN DisplayResponse(pair.result)
                      ELSE UNCHANGED panel
                   /\ history_listbox' = RefreshHistoryListbox(history, recs)
                   /\ UNCHANGED << mainpc, pollScheduled >>
    /\ UNCHANGED << recs, history, request_queue, workerVars, sent, written, published,
                    submitVars >>

(* Lines 233-236: get_nowait() raised queue.Empty *)
PollEmpty ==
    /\ mainpc = "poll"
    /\ response_queue = << >>
    /\ PollFinally
    /\ UNCHANGED << recs, history, history_listbox, request_queue, response_queue,
                    panel, workerVars, ghostVars, submitVars >>

-----------------------------------------------------------------------------
(* Main context: history buttons *)

(* _delete_selected_history; selection is curselection(): empty, or the     *)
(* listbox row the user picked since the last refresh                       *)
DeleteSelectedHistory(selection) ==
    /\ mainpc = "idle"
    /\ IF selection = NoSelection
       THEN UNCHANGED << history, history_listbox >>
       ELSE LET index == Len(history) - 1 - selection[1]
            IN  IF InRange(history, index)
                THEN /\ history' = DelHistory(history, index)
                     /\ history_listbox' = RefreshHistoryListbox(history', recs)
                ELSE UNCHANGED << history, history_listbox >>
    /\ dialogs' = << >>
    /\ UNCHANGED << recs, request_queue, response_queue, panel, mainpc,
                    pollScheduled, workerVars, ghostVars, headers_raw, wasEmpty >>

Selections == { NoSelection } \cup { << row >> : row \in 0 .. Len(history_listbox) - 1 }

ClearHistory_DropsQueue(answer) ==
    /\ mainpc = "idle"
    /\ IF answer
       THEN /\ history' = << >>
            /\ history_listbox' = RefreshHistoryListbox(history', recs)
            /\ request_queue' = << >>
       ELSE UNCHANGED << history, history_listbox, request_queue >>
    /\ dialogs' = << >>
    /\ UNCHANGED << recs, response_queue, panel, mainpc,
                    pollScheduled, workerVars, ghostVars, headers_raw, wasEmpty >>

(* _clear_history; answer is what messagebox.askyesno returned *)
ClearHistory(answer) ==
    /\ mainpc = "idle"
    /\ IF answer
       THEN /\ history' = << >>
            /\ history_listbox' = RefreshHistoryListbox(history', recs)
       ELSE UNCHANGED << history, history_listbox >>
    /\ dialogs' = << >>
    /\ UNCHANGED << recs, request_queue, response_queue, panel, mainpc,
                    pollScheduled, workerVars, ghostVars, headers_raw, wasEmpty >>

-----------------------------------------------------------------------------

Main ==
    \/ \E urlText \in UrlEntries, methodChoice \in MethodChoices,
          headersText \in HeaderTexts, bodyText \in BodyTexts :
           QueueRequest(urlText, methodChoice, headersText, bodyText)
    \/ QueueRequestStart
    \/ PollBegin
    \/ PollGet
    \/ PollEmpty
    \/ \E selection \in Selections : DeleteSelectedHistory(selection)
    \/ \E answer \in BOOLEAN : ClearHistory(answer)

Next == Main \/ \E w \in Workers : Worker(w)

Spec == Init /\ [][Next]_vars

(* Threads are scheduled fairly, every transport call returns or raises,    *)
(* the Tk main loop runs the handler it is in to its end and fires timers   *)
Fairness ==
    /\ \A w \in Workers : WF_vars(Worker(w))
    /\ WF_vars(QueueRequestStart)
    /\ WF_vars(PollBegin)
    /\ WF_vars(PollGet)
    /\ WF_vars(PollEmpty)

FairSpec == Spec /\ Fairness

(* The program with a transport whose responses to one request may differ  *)
(* in their headers                                                         *)
DatedWorker(w) ==
    \/ WorkerTest(w)
    \/ WorkerGet(w)
    \/ \E response \in DatedResponses, elapsed \in ElapsedChoices :
           WorkerResponse(w, response, elapsed)
    \/ \E exc \in Exceptions, elapsed \in ElapsedChoices :
           WorkerException(w, exc, elapsed)
    \/ WorkerPut(w)

DatedNext == Main \/ \E w \in Workers : DatedWorker(w)

DatedSpec == Init /\ [][DatedNext]_vars

DatedFairness ==
    /\ \A w \in Workers : WF_vars(DatedWorker(w))
    /\ WF_vars(QueueRequestStart)
    /\ WF_vars(PollBegin)
    /\ WF_vars(PollGet)
    /\ WF_vars(PollEmpty)

DatedFairSpec == DatedSpec /\ DatedFairness

(* The first submission of a session, with any headers text *)
ParseSubmit ==
    /\ recs = << >>
    /\ \E urlText \in UrlEntries, methodChoice \in MethodChoices,
          headersText \in RawTexts, bodyText \in BodyTexts :
           QueueRequest(urlText, methodChoice, headersText, bodyText)

ParseNext == ParseSubmit \/ QueueRequestStart

ParseSpec == Init /\ [][ParseNext]_vars

-----------------------------------------------------------------------------
(* Properties *)

Range(q) == { q[i] : i \in DOMAIN q }

Last(h) == h[Len(h)]

(* C1: in every reachable state at most one worker thread is alive *)
C1_AtMostOneWorker == Cardinality(Alive) <= 1

(* C2: execution is serial in submission order: the transport call for a   *)
(* record does not begin before the pair of every record submitted earlier *)
(* has been published                                                      *)
C2_SerialInSubmissionOrder ==
    \A a, b \in Refs : (a < b /\ sent[b] > 0) => published[a] > 0

(* A record is held by a worker between its get() and its put() *)
Held(r) == \E w \in Workers : wpc[w] \in {"request", "put"} /\ witem[w] = r

(* C3, safety part: a record in the request queue always has a live worker *)
(* to take it, or the Submit that enqueued it is about to start one        *)
C3_QueuedHasTaker ==
    request_queue # << >> =>
        \/ Alive # {}
        \/ mainpc = "queued" /\ Len(request_queue) = 1

(* C3: every record enqueued by a successful Submit is eventually dequeued *)
(* and its pair is eventually put on the response queue; no record is left *)
(* in the request queue without a worker to take it                        *)
C3_EveryRecordPublished ==
    /\ []C3_QueuedHasTaker
    /\ \A r \in Refs :
           (r \in Range(request_queue)) ~> (sent[r] > 0 /\ published[r] > 0)

C3_Witness ==
    /\ Len(recs) = 2
    /\ \A r \in 1 .. 2 : published[r] = 1
    /\ Alive = {}

(* C4: each submitted record is handed to the transport at most once, its  *)
(* outcome fields are written at most once and at most one pair is         *)
(* published for it; a record that is neither queued nor held by a worker  *)
(* has had exactly one call, one write and one pair                        *)
C4_ExactlyOnce ==
    \A r \in Refs :
        /\ sent[r] <= 1 /\ written[r] <= 1 /\ published[r] <= 1
        /\ written[r] <= sent[r] /\ published[r] <= written[r]
        /\ Cardinality({ i \in DOMAIN request_queue : request_queue[i] = r }) <= 1
        /\ (r <= Len(recs) /\ r \notin Range(request_queue) /\ ~Held(r))
               => (sent[r] = 1 /\ written[r] = 1 /\ published[r] = 1)

C4_Witness ==
    /\ Cardinality(Alive) = 2
    /\ \A r \in 1 .. 2 : published[r] = 1

(* A step of the poll loop that takes a pair off the response queue *)
PollTakes ==
    /\ mainpc = "poll"
    /\ response_queue # << >>
    /\ response_queue' = Tail(response_queue)

(* A step of the poll loop that puts the pair's result on the live panel *)
PollDisplays ==
    /\ PollTakes
    /\ panel' # panel
    /\ LET result == Head(response_queue).result
       IN  panel' = << result.status, result.elapsed, result.headers, result.body >>

(* The pair of record r was published and the poll has taken it off *)
TakenOff(r) ==
    /\ published[r] > 0
    /\ \A j \in DOMAIN response_queue : response_queue[j].item # r

(* C5: outcome fields of records are written only by the poll loop on the  *)
(* main context, never by a worker step, so the history display never      *)
(* shows an outcome whose pair the poll has not yet taken off the channel  *)
C5_OutcomeAppliedOnlyByPoll ==
    /\ [][(\E r \in DOMAIN recs : recs'[r] # recs[r]) => PollTakes]_vars
    /\ [](\A i \in DOMAIN history_listbox :
             (Len(history_listbox) = Len(history)
                 /\ history_listbox[i].duration # << "pending" >>)
             => TakenOff(history[Len(history) + 1 - i]))

(* C6: the poll loop updates the live panel only if the pair's record is   *)
(* the very same record (the same reference) as the last entry of history  *)
C6_DisplaysOnlySameReference ==
    [][PollDisplays =>
          (history # << >> /\ Head(response_queue).item = Last(history))]_vars

(* C7 as stated: whenever the poll loop updates the live panel with a      *)
(* pair's outcome, the pair's record is the most recently submitted record *)
C7_DisplaysMostRecentlySubmitted ==
    [][PollDisplays => Head(response_queue).item = Len(recs)]_vars

(* C7 amended: whenever the poll loop updates the live panel with a pair's *)
(* outcome, the pair's record compares equal, field by field, to the last  *)
(* entry of history at that moment, and that entry is the most recently    *)
(* submitted of the records still in history                               *)
C7_DisplaysEqualOfLastInStore ==
    [][PollDisplays =>
          /\ history # << >>
          /\ ItemEq(recs[Head(response_queue).item], recs[Last(history)])
          /\ \A i \in DOMAIN history : history[i] <= Last(history)]_vars

ShowsOutcome == status_var \notin { << "-" >>, << "Pending..." >> }

C7_Witness ==
    /\ Len(recs) = 2
    /\ history = << 1 >>
    /\ published[2] = 0
    /\ ShowsOutcome

(* C8: each poll tick takes every pair that was on the response queue when *)
(* the tick started, and refreshes the history display for each pair taken *)
C8_TickDrainsAll ==
    /\ [](mainpc # "poll" => tickLeft = 0)
    /\ [][PollTakes =>
             history_listbox' = RefreshHistoryListbox(history', recs')]_vars

(* C9: the poll loop runs forever: outside a tick the next tick is always  *)
(* scheduled, a tick can always take its next step without waiting, every  *)
(* tick ends, ticks recur, and a tick that finds the response queue empty  *)
(* changes nothing of history, live panel, records and queues              *)
C9_PollRunsForever ==
    /\ [](mainpc # "poll" => pollScheduled)
    /\ [](mainpc = "poll" => ENABLED (PollGet \/ PollEmpty))
    /\ []<>(mainpc = "poll")
    /\ []<>(mainpc # "poll")
    /\ [][(mainpc = "poll" /\ response_queue = << >> /\ mainpc' # "poll") =>
             UNCHANGED << recs, history, history_listbox, panel,
                          request_queue, response_queue >>]_vars

C9_Witness ==
    /\ mainpc = "idle"
    /\ pollScheduled
    /\ tickLeft > 0

(* C10: a transport failure never ends the worker loop: the worker builds  *)
(* the failure result, puts the pair on the response queue and returns to  *)
(* the loop test, and a worker thread ends only on an empty request queue  *)
C10_FailureKeepsWorkerRunning ==
    [][\A w \in Workers :
          /\ (wpc[w] = "request" /\ wpc'[w] # "request"
                 /\ recs'[witem[w]].response_status = None)
             => /\ wpc'[w] = "put"
                /\ witem'[w] = witem[w]
                /\ wresult'[w].status = << "Request failed" >>
          /\ (wpc[w] = "put" /\ wpc'[w] # "put")
             => /\ wpc'[w] = "while"
                /\ response_queue' =
                       Append(response_queue,
                              [item |-> witem[w], result |-> wresult[w]])
          /\ (wpc[w] # "none" /\ wpc'[w] = "none") => request_queue = << >>]_vars

C10_Witness ==
    /\ published[1] = 1
    /\ recs[1].response_status = None
    /\ recs[1].response_time # None
    /\ \E w \in Workers : Alive = {w} /\ wpc[w] = "request" /\ witem[w] = 2

(* The pairs built so far and not yet taken by the poll loop *)
Pairs ==
    Range(response_queue)
        \cup { [item |-> witem[w], result |-> wresult[w]] :
                   w \in { x \in Workers : wpc[x] = "put" } }

IsFailureShape(result) ==
    result.status = << "Request failed" >> /\ result.headers = << >>

IsSuccessShape(result) ==
    Len(result.status) = 2 /\ result.headers # << >>

(* C11: after the failure path the record's status is unset and its elapsed *)
(* time is set, and the pair published has the failure shape (an error      *)
(* description, no status code); after the success path the record's status *)
(* is the returned status code; each pair has exactly one of the two shapes *)
C11_OutcomeShapes ==
    /\ \A r \in 1 .. Len(recs) :
           IF written[r] = 0
           THEN recs[r].response_status = None /\ recs[r].response_time = None
           ELSE recs[r].response_time # None
    /\ \A p \in Pairs :
           /\ IsFailureShape(p.result) # IsSuccessShape(p.result)
           /\ IsFailureShape(p.result) <=> recs[p.item].response_status = None
           /\ IsFailureShape(p.result) =>
                  /\ p.result.body = recs[p.item].response_preview
                  /\ p.result.body \in Exceptions
           /\ IsSuccessShape(p.result) =>
                  /\ recs[p.item].response_status # None
                  /\ p.result.status[1] = Str(recs[p.item].response_status[1])
                  /\ \E response \in Responses :
                         recs[p.item].response_status[1] = response.status_code

C11_Witness ==
    /\ Len(response_queue) = 2
    /\ IsFailureShape(response_queue[1].result)
    /\ IsSuccessShape(response_queue[2].result)

(* The parts of the state that a rejected submission must leave alone *)
SubmitEffects ==
    << recs, history, history_listbox, request_queue, response_queue,
       workerVars, panel, mainpc >>

(* C12: a submission whose URL is empty after stripping shows the "Missing URL"
   error box and nothing else: the history, the listbox, both queues, the
   records, the response panel and the set of live workers stay as they
   were; and no record with an empty URL is ever created. *)
C12_EmptyUrlChangesNothing ==
    [][ /\ \A urlText \in UrlEntries, methodChoice \in MethodChoices,
              headersText \in HeaderTexts, bodyText \in BodyTexts :
               ( /\ Strip(urlText) = << >>
                 /\ QueueRequest(urlText, methodChoice, headersText, bodyText) )
                   => /\ dialogs' = << MissingUrlBox >>
                      /\ UNCHANGED SubmitEffects
                      /\ Alive' = Alive
        /\ (dialogs' = << MissingUrlBox >> /\ dialogs # dialogs')
               => UNCHANGED SubmitEffects
        /\ \A r \in 1 .. Len(recs') : Strip(recs'[r].url) # << >> ]_vars

(* The error box is up while a record waits in the queue and a worker lives *)
C12_Witness ==
    /\ dialogs = << MissingUrlBox >>
    /\ request_queue # << >>
    /\ history # << >>
    /\ Alive # {}

(* C13: a step that creates a record lengthens the history by exactly one,
   with the new record at the end, and puts that same record at the back of
   the request queue; the history grows in no other way; and no step of a
   worker or of the poll callback changes the length of the history,
   whether the request succeeded or failed. *)
C13_SubmitAppendsOne ==
    [][ /\ (Len(recs') # Len(recs))
               => /\ Len(recs') = Len(recs) + 1
                  /\ Len(history') = Len(history) + 1
                  /\ history' = Append(history, Len(recs'))
                  /\ request_queue' = Append(request_queue, Len(recs'))
        /\ (Len(history') > Len(history)) => (Len(recs') = Len(recs) + 1)
        /\ (Len(history') # Len(history))
               => /\ mainpc = "idle"
                  /\ UNCHANGED << workerVars, response_queue, written, published >>
        /\ ((\E w \in Workers : Worker(w)) \/ PollBegin \/ PollGet \/ PollEmpty)
               => (Len(history') = Len(history)) ]_vars

(* The second record was appended after the first one's outcome was written *)
C13_Witness ==
    /\ history = << 1, 2 >>
    /\ request_queue = << 2 >>
    /\ written[1] = 1
    /\ mainpc = "queued"

(* C14: in every reachable state the history lists records oldest first in
   the order of their submission: it is a strictly increasing sequence of
   allocation numbers of records that were submitted, so it is a subsequence
   of the sequence of all submitted records and holds no record twice. *)
C14_HistoryInSubmissionOrder ==
    /\ \A i \in 1 .. Len(history) : history[i] \in 1 .. Len(recs)
    /\ \A i, j \in 1 .. Len(history) : (i < j) => (history[i] < history[j])

(* The older of two records was deleted and the younger one remains, with its
   outcome already written by a worker *)
C14_Witness ==
    /\ Len(recs) = 2
    /\ history = << 2 >>
    /\ written[2] = 1

(* h with the element at position pos (counted from 1) taken out: the earlier
   elements stay, the later ones move down by one *)
RemovedAt(h, d, pos) ==
    /\ pos \in 1 .. Len(h)
    /\ Len(d) = Len(h) - 1
    /\ \A k \in 1 .. pos - 1 : d[k] = h[k]
    /\ \A k \in pos .. Len(d) : d[k] = h[k + 1]

Indices == (0 - MaxSubmits - 1) .. MaxSubmits

(* C15: on the history of any reachable state, del history[index] with an
   index outside the list raises and leaves the list as it was, and with an
   index inside the list removes exactly the element at that position,
   moving the later ones down by one; the delete handler, given a selected
   row, always computes an index inside the list and removes exactly the
   record at position len - 1 - row; given no selection it changes nothing. *)
C15_DeleteRemovesExactlyOne ==
    [][ /\ \A index \in Indices :
               IF InRange(history, index)
               THEN RemovedAt(history, DelHistory(history, index),
                              NormIndex(history, index) + 1)
               ELSE DelHistory(history, index) = history
        /\ \A selection \in Selections :
               DeleteSelectedHistory(selection)
                   => IF selection = NoSelection
                      THEN history' = history
                      ELSE /\ InRange(history, Len(history) - 1 - selection[1])
                           /\ Len(history) - 1 - selection[1] >= 0
                           /\ RemovedAt(history, history',
                                        Len(history) - selection[1]) ]_vars

(* The newer of two records was deleted, the older one is still listed *)
C15_Witness ==
    /\ Len(recs) = 2
    /\ history = << 1 >>
    /\ Len(history_listbox) = 1

(* The lines of a text: its maximal stretches without a line break, each given
   by the positions of its first and last character *)
Segments(t) ==
    { seg \in (1 .. Len(t) + 1) \X (0 .. Len(t)) :
        /\ seg[2] >= seg[1] - 1
        /\ seg[1] = 1 \/ t[seg[1] - 1] = "\n"
        /\ seg[2] = Len(t) \/ t[seg[2] + 1] = "\n"
        /\ \A k \in seg[1] .. seg[2] : t[k] # "\n" }

LineOf(t, seg) == SubSeq(t, seg[1], seg[2])

ColonLines(t) ==
    { seg \in Segments(t) :
        Strip(LineOf(t, seg)) # << >> /\ HasColon(LineOf(t, seg)) }

BadLines(t) ==
    { seg \in Segments(t) :
        Strip(LineOf(t, seg)) # << >> /\ ~HasColon(LineOf(t, seg)) }

KeyOf(line) == Strip(SubSeq(line, 1, FirstColon(line) - 1))

ValueOf(line) == Strip(SubSeq(line, FirstColon(line) + 1, Len(line)))

(* The record built from the text headers_raw *)
Parsed == recs[Len(recs)].headers

(* One warning for each non-blank line without a colon, in the order of the
   lines, and the record is stored and queued all the same *)
WarningsAndProceeds ==
    /\ Len(dialogs) = Cardinality(BadLines(headers_raw))
    /\ \A seg \in BadLines(headers_raw) :
           LET n == Cardinality({ b \in BadLines(headers_raw) : b[1] <= seg[1] })
           IN  /\ dialogs[n].title = "Invalid header"
               /\ Strip(dialogs[n].about) = Strip(LineOf(headers_raw, seg))
    /\ history = << 1 >>
    /\ 1 \in Range(request_queue) \/ sent[1] = 1

ExampleParsed ==
    (headers_raw = ExampleText)
        => /\ DOMAIN Parsed = { << "X", "-", "T", "e", "s", "t" >>, << "Y" >> }
           /\ Parsed[<< "X", "-", "T", "e", "s", "t" >>] = << "1" >>
           /\ Parsed[<< "Y" >>] = << "2" >>
           /\ Len(dialogs) = 1
           /\ dialogs[1].about = << "B", "a", "d", "-", "L", "i", "n", "e" >>

(* C16 as stated: after a submission the record's headers hold exactly the
   trimmed key and the trimmed value, split at the first colon, of every
   non-blank line with a colon; every non-blank line without a colon gave
   one warning; blank lines gave nothing; the record was stored and queued. *)
C16_EveryColonLineInMapping ==
    (recs # << >>)
        => /\ \A seg \in ColonLines(headers_raw) :
                  LET line == LineOf(headers_raw, seg)
                  IN  /\ KeyOf(line) \in DOMAIN Parsed
                      /\ Parsed[KeyOf(line)] = ValueOf(line)
           /\ \A k \in DOMAIN Parsed :
                  \E seg \in ColonLines(headers_raw) :
                      KeyOf(LineOf(headers_raw, seg)) = k
           /\ WarningsAndProceeds
           /\ ExampleParsed

(* C16, amended: the keys of the record's headers are exactly the trimmed
   keys of the non-blank lines with a colon, and each key has the trimmed
   value of the last such line with that key (a later line replaces an
   earlier one with the same key); every non-blank line without a colon gave
   one warning; blank lines gave nothing; the record was stored and queued. *)
C16_LastLineOfKeyInMapping ==
    (recs # << >>)
        => /\ \A seg \in ColonLines(headers_raw) :
                  LET line == LineOf(headers_raw, seg)
                      last == CHOOSE l \in ColonLines(headers_raw) :
                                  /\ KeyOf(LineOf(headers_raw, l)) = KeyOf(line)
                                  /\ \A m \in ColonLines(headers_raw) :
                                         KeyOf(LineOf(headers_raw, m)) = KeyOf(line)
                                             => m[1] <= l[1]
                  IN  /\ KeyOf(line) \in DOMAIN Parsed
                      /\ Parsed[KeyOf(line)] = ValueOf(LineOf(headers_raw, last))
           /\ \A k \in DOMAIN Parsed :
                  \E seg \in ColonLines(headers_raw) :
                      KeyOf(LineOf(headers_raw, seg)) = k
           /\ WarningsAndProceeds
           /\ ExampleParsed

(* Two lines with the same key and different values were parsed, next to a
   line without a colon *)
C16_Witness ==
    /\ recs # << >>
    /\ \E s1, s2 \in ColonLines(headers_raw) :
           /\ KeyOf(LineOf(headers_raw, s1)) = KeyOf(LineOf(headers_raw, s2))
           /\ ValueOf(LineOf(headers_raw, s1)) # ValueOf(LineOf(headers_raw, s2))
    /\ dialogs # << >>

(* C17: the step of a submission that decides whether to start a worker
   thread starts one exactly when the request queue was empty just before
   that submission put its record on it, whatever the worker threads
   dequeued in between. *)
C17_StartsWorkerIffQueueWasEmpty ==
    [][ (mainpc = "queued" /\ mainpc' = "idle")
            => ((Alive' # Alive) <=> wasEmpty) ]_vars

(* A record is pending or in flight: queued, or taken by a worker whose
   transport call has not ended *)
PendingOrInFlight(r) ==
    \/ r \in Range(request_queue)
    \/ \E w \in Workers : wpc[w] = "request" /\ witem[w] = r

(* C18: a step that removes records from the history (delete or clear)
   leaves the request queue, the response queue, the worker threads with
   the records they hold, the records' fields and the response panel as
   they were; and a record that is out of the history while it is queued or
   in flight is still handed to the transport and its pair is still put on
   the response queue. *)
C18_RemovalTouchesOnlyHistory ==
    /\ [][ (Len(history') < Len(history))
               => UNCHANGED << request_queue, response_queue, workerVars, recs,
                               panel, sent, written, published >> ]_vars
    /\ \A r \in Refs :
           (r \in 1 .. Len(recs) /\ r \notin Range(history) /\ PendingOrInFlight(r))
               ~> (sent[r] > 0 /\ published[r] > 0)

(* The history was cleared while one record was in flight and the other was
   still queued *)
C18_Witness ==
    /\ Len(recs) = 2
    /\ history = << >>
    /\ \E w \in Workers : wpc[w] = "request" /\ witem[w] = 1
    /\ request_queue = << 2 >>

(* C19: a worker thread that found the request queue non-empty in its test
   always finds a record to take: no worker is ever in get() on an empty
   queue, where it would stay for good unless another submission came. *)
C19_NoWorkerBlockedInGet ==
    \A w \in Workers : (wpc[w] = "get") => (request_queue # << >>)

(* Record r is the last one submitted and nothing was ever removed from the
   history, so r has been the last entry of the history since its submission *)
StaysLast(r) ==
    /\ Len(recs) = r
    /\ history = [ i \in 1 .. r |-> i ]

(* C20: a record that stays the last entry of the history has its outcome
   shown on the live panel in the end, and once the poll loop has taken its
   pair the panel is never again rewritten with the outcome of a record
   submitted earlier. *)
C20_LatestOutcomeShownAndKept ==
    /\ \A r \in Refs :
           StaysLast(r) ~> ((TakenOff(r) /\ ShowsOutcome) \/ ~StaysLast(r))
    /\ [][ \A r \in Refs :
               (StaysLast(r) /\ TakenOff(r) /\ PollDisplays)
                   => Head(response_queue).item >= r ]_vars

=============================================================================
